---- MODULE Spec2Model ----
(***************************************************************************)
(* Limit order book of ryamgoh/order-book-cpp: the ladders bids_ and       *)
(* asks_, the order index orders_, the level aggregates data_, the         *)
(* crossing loop MatchOrders, the GoodForDay pruner thread, the readers    *)
(* Size and GetOrderInfos, and the destructor.                             *)
(*                                                                         *)
(* Spec is the book under client calls made one at a time, each pruner     *)
(* cycle taken whole; SpecThreads runs the pruner thread, the readers and  *)
(* the destructor step by step beside the clients; SpecCaught is the book  *)
(* under a caller that catches what AddOrder throws; SpecModify runs       *)
(* ModifyOrder step by step beside clients that add and cancel.            *)
(*                                                                         *)
(* Order objects live in `heap` (one entry per std::shared_ptr<Order>      *)
(* target); the ladders and the index hold handles into it, so that a      *)
(* mutation made through the head of a bucket is seen through the index.   *)
(*                                                                         *)
(* Quantity is std::uint32_t.  A uint32 value v is represented by the      *)
(* integer congruent to v modulo 2^32 that lies in -2^31 .. 2^31-1, so     *)
(* that += and -= are plain + and - for as long as the values of the model *)
(* stay far from +-2^31 (they stay within a few tens of 0), and unsigned   *)
(* comparison is ULeq below.  0 - 1 is then -1, standing for 2^32 - 1.     *)
(***************************************************************************)
EXTENDS Integers, Sequences, FiniteSets, TLC

\* ------------------------------------------------------------- bounds
MaxId == 3
MaxPrice == 2
MaxQty == 2
\* number of Trade records the trades vector of one MatchOrders call can
\* hold before push_back fails to allocate
MaxTrades == 2
\* number of exceptions out of AddOrder the calling program survives
MaxThrows == 1
\* ids the clients use in the specifications with fewer inputs
MaxSmallId == 2
\* exceptions out of AddOrder the caller catches and goes on after, in the
\* specification of a program that catches them
MaxCaught == 1

Ids == 1..MaxId
Prices == 1..MaxPrice
Quantities == 1..MaxQty
Handles == 1..(MaxId + 1)

OrderTypes == {"Market", "GoodForDay", "GoodTillCancel", "FillAndKill", "FillOrKill"}
Sides == {"Buy", "Sell"}

VARIABLES
  heap,      \* handle -> Order object
  bids_,     \* price -> sequence of handles (std::list), iterated descending
  asks_,     \* price -> sequence of handles (std::list), iterated ascending
  orders_,   \* order id -> handle (OrderEntry: the pointer and its list node)
  data_,     \* price -> LevelData
  pc,        \* "idle": ordersMutex_ free; "match": AddOrder is in MatchOrders;
             \* "hung": AddOrder blocks on the mutex it holds; "dead": the
             \* process has been ended by a fault
  cur,       \* the handle of the order AddOrder is admitting, 0 when idle
  trades,    \* the trades vector of the running / last AddOrder
  last,      \* what the last finished operation was and how it ended
  throws,    \* exceptions thrown out of AddOrder so far
  given,     \* the argument of the running AddOrder / ModifyOrder call
  before,    \* the containers as the last admitted AddOrder call found them
  shutdown_, \* std::atomic<bool> shutdown_
  prunerPc,  \* where ordersPruneThread_ is in PruneGoodForDayOrders
  pruneIds,  \* the local orderIds of PruneGoodForDayOrders
  dtorPc,    \* where the thread that destroys the Orderbook is in ~Orderbook
  seen,      \* what the last Size() or GetOrderInfos() call returned
  modifier   \* the thread inside ModifyOrder between its acquisitions of the
             \* mutex: where it is, its argument `order` and its local orderType

vars == <<heap, bids_, asks_, orders_, data_, pc, cur, trades, last, throws,
          given, before, shutdown_, prunerPc, pruneIds, dtorPc, seen,
          modifier>>

\* ------------------------------------------------------------- helpers
Drop(f, k) == [x \in DOMAIN f \ {k} |-> f[x]]
Put(f, k, v) == [x \in DOMAIN f \cup {k} |-> IF x = k THEN v ELSE f[x]]
EmptyMap == [x \in {} |-> 0]

Max(S) == CHOOSE x \in S : \A y \in S : y <= x
Min(S) == CHOOSE x \in S : \A y \in S : x <= y
MinOf(a, b) == IF a <= b THEN a ELSE b

\* unsigned comparison a <= b of two uint32 values in the representation above
ULeq(a, b) == IF (a >= 0) = (b >= 0) THEN a <= b ELSE a >= 0

RemoveAt(s, i) == [j \in 1..(Len(s) - 1) |-> IF j < i THEN s[j] ELSE s[j + 1]]
IndexOf(s, x) == CHOOSE i \in 1..Len(s) : s[i] = x
Contains(s, x) == \E i \in 1..Len(s) : s[i] = x

\* ------------------------------------------------------------- Order
Order(orderType, orderId, side, price, quantity) ==
  [orderType |-> orderType, orderId |-> orderId, side |-> side, price |-> price,
   initialQuantity |-> quantity, remainingQuantity |-> quantity]

GetFilledQuantity(o) == o.initialQuantity - o.remainingQuantity
IsFilled(o) == o.remainingQuantity = 0

\* Fill with the debit applied with the wrong sign
FillCredits(o, quantity) ==
  [o EXCEPT !.remainingQuantity = @ + quantity]

\* Fill throws when quantity > remaining; the debit is written after the throw
\* inside the same branch, so no path through Fill assigns remainingQuantity_.
FillThrows(o, quantity) == quantity > o.remainingQuantity
Fill(o, quantity) == o

\* Order.hpp is not among the sources; ToGoodTillCancel is taken from the
\* description of the one-shot repricing of Market orders.
ToGoodTillCancel(o, price) ==
  [o EXCEPT !.orderType = "GoodTillCancel", !.price = price]

\* ------------------------------------------------------------- book
\* A book is the record of the five containers; the operators below are the
\* non-locking helpers of Orderbook, from book to book.
Book == [heap |-> heap, bids |-> bids_, asks |-> asks_, orders |-> orders_,
         data |-> data_]

NoLevel == [quantity_ |-> 0, count_ |-> 0]

UpdateLevelData(data, price, quantity, action) ==
  LET old == IF price \in DOMAIN data THEN data[price] ELSE NoLevel
      cnt == old.count_ + (IF action = "Remove" THEN -1
                           ELSE IF action = "Add" THEN 1 ELSE 0)
      qty == IF action \in {"Remove", "Match"}
             THEN old.quantity_ - quantity
             ELSE old.quantity_ + quantity
  IN IF cnt = 0
     THEN Drop(data, price)
     ELSE Put(data, price, [quantity_ |-> qty, count_ |-> cnt])

OnOrderCancelled(data, o) ==
  UpdateLevelData(data, o.price, o.remainingQuantity, "Remove")

OnOrderAdded(data, o) ==
  UpdateLevelData(data, o.price, o.initialQuantity, "Add")

OnOrderMatched(data, price, quantity, isFullyFilled) ==
  UpdateLevelData(data, price, quantity,
                  IF isFullyFilled THEN "Remove" ELSE "Match")

\* std::list::erase(iterator) followed by the erase of an emptied bucket
EraseFromLadder(ladder, price, h) ==
  LET rest == RemoveAt(ladder[price], IndexOf(ladder[price], h))
  IN IF rest = <<>> THEN Drop(ladder, price) ELSE Put(ladder, price, rest)

\* CancelOrderInternal without orders_.erase(orderId)
CancelOrderInternalKeepsIndex(b, orderId) ==
  IF orderId \notin DOMAIN b.orders
  THEN b
  ELSE LET h == b.orders[orderId]
           o == b.heap[h]
       IN [heap   |-> b.heap,
           orders |-> b.orders,
           asks   |-> IF o.side = "Sell"
                      THEN EraseFromLadder(b.asks, o.price, h) ELSE b.asks,
           bids   |-> IF o.side = "Sell"
                      THEN b.bids ELSE EraseFromLadder(b.bids, o.price, h),
           data   |-> OnOrderCancelled(b.data, o)]

CancelOrderInternal(b, orderId) ==
  IF orderId \notin DOMAIN b.orders
  THEN b
  ELSE LET h == b.orders[orderId]
           o == b.heap[h]
       IN [heap   |-> Drop(b.heap, h),
           orders |-> Drop(b.orders, orderId),
           asks   |-> IF o.side = "Sell"
                      THEN EraseFromLadder(b.asks, o.price, h) ELSE b.asks,
           bids   |-> IF o.side = "Sell"
                      THEN b.bids ELSE EraseFromLadder(b.bids, o.price, h),
           data   |-> OnOrderCancelled(b.data, o)]

RECURSIVE CancelOrders(_, _)
CancelOrders(b, orderIds) ==
  IF orderIds = {}
  THEN b
  ELSE LET id == Min(orderIds)
       IN CancelOrders(CancelOrderInternal(b, id), orderIds \ {id})

CanMatch(b, side, price) ==
  IF side = "Buy"
  THEN IF DOMAIN b.asks = {} THEN FALSE ELSE price >= Min(DOMAIN b.asks)
  ELSE IF DOMAIN b.bids = {} THEN FALSE ELSE price <= Max(DOMAIN b.bids)

\* the walk without the skip of the levels on the near side of the opposite top
RECURSIVE FillWalkNoThreshold(_, _, _, _, _, _)
FillWalkNoThreshold(data, levels, side, threshold, price, quantity) ==
  IF levels = {}
  THEN FALSE
  ELSE LET levelPrice == Min(levels)
           rest == levels \ {levelPrice}
       IN IF (side = "Buy" /\ levelPrice > price)
             \/ (side = "Sell" /\ levelPrice < price)
          THEN FillWalkNoThreshold(data, rest, side, threshold, price, quantity)
          ELSE IF ULeq(quantity, data[levelPrice].quantity_)
          THEN TRUE
          ELSE FillWalkNoThreshold(data, rest, side, threshold, price,
                                   quantity - data[levelPrice].quantity_)

\* The walk over data_ (an unordered_map) is made in ascending price order;
\* the result does not depend on the order, being "quantity <= the sum of the
\* quantities of the levels that are not skipped".
RECURSIVE FillWalk(_, _, _, _, _, _)
FillWalk(data, levels, side, threshold, price, quantity) ==
  IF levels = {}
  THEN FALSE
  ELSE LET levelPrice == Min(levels)
           rest == levels \ {levelPrice}
       IN IF (side = "Buy" /\ threshold > levelPrice)
             \/ (side = "Sell" /\ threshold < levelPrice)
          THEN FillWalk(data, rest, side, threshold, price, quantity)
          ELSE IF (side = "Buy" /\ levelPrice > price)
                  \/ (side = "Sell" /\ levelPrice < price)
          THEN FillWalk(data, rest, side, threshold, price, quantity)
          ELSE IF ULeq(quantity, data[levelPrice].quantity_)
          THEN TRUE
          ELSE FillWalk(data, rest, side, threshold, price,
                        quantity - data[levelPrice].quantity_)

CanFullyFill(b, side, price, quantity) ==
  IF ~CanMatch(b, side, price)
  THEN FALSE
  ELSE LET threshold == IF side = "Buy" THEN Min(DOMAIN b.asks)
                        ELSE Max(DOMAIN b.bids)
       IN FillWalk(b.data, DOMAIN b.data, side, threshold, price, quantity)

\* ------------------------------------------------------------- AddOrder
\* Admission without the test of orders_.contains(order->GetOrderId())
AdmissionNoDuplicateCheck(b, order) ==
  LET market == order.orderType = "Market"
      noSide == market
                /\ ~(order.side = "Buy" /\ DOMAIN b.asks # {})
                /\ ~(order.side = "Sell" /\ DOMAIN b.bids # {})
      o == IF ~market \/ noSide THEN order
           ELSE IF order.side = "Buy"
           THEN ToGoodTillCancel(order, Max(DOMAIN b.asks))
           ELSE ToGoodTillCancel(order, Min(DOMAIN b.bids))
  IN IF noSide
     THEN [ok |-> FALSE, why |-> "noLiquidity", order |-> order]
     ELSE IF o.orderType = "FillAndKill" /\ ~CanMatch(b, o.side, o.price)
     THEN [ok |-> FALSE, why |-> "cannotMatch", order |-> o]
     ELSE IF o.orderType = "FillOrKill"
             /\ ~CanFullyFill(b, o.side, o.price, o.initialQuantity)
     THEN [ok |-> FALSE, why |-> "cannotFullyFill", order |-> o]
     ELSE [ok |-> TRUE, why |-> "admitted", order |-> o]

\* Admission without the CanMatch test of FillAndKill orders
AdmissionSkipsCanMatch(b, order) ==
  IF order.orderId \in DOMAIN b.orders
  THEN [ok |-> FALSE, why |-> "duplicate", order |-> order]
  ELSE IF order.orderType = "FillAndKill"
  THEN [ok |-> TRUE, why |-> "admitted", order |-> order]
  ELSE AdmissionNoDuplicateCheck(b, order)

\* Lines 298-320 of AddOrder: the order as admitted (a Market order repriced
\* and retyped), or the reason of the early return.
Admission(b, order) ==
  IF order.orderId \in DOMAIN b.orders
  THEN [ok |-> FALSE, why |-> "duplicate", order |-> order]
  ELSE
    LET market == order.orderType = "Market"
        noSide == market
                  /\ ~(order.side = "Buy" /\ DOMAIN b.asks # {})
                  /\ ~(order.side = "Sell" /\ DOMAIN b.bids # {})
        o == IF ~market \/ noSide THEN order
             ELSE IF order.side = "Buy"
             THEN ToGoodTillCancel(order, Max(DOMAIN b.asks))
             ELSE ToGoodTillCancel(order, Min(DOMAIN b.bids))
    IN IF noSide
       THEN [ok |-> FALSE, why |-> "noLiquidity", order |-> order]
       ELSE IF o.orderType = "FillAndKill" /\ ~CanMatch(b, o.side, o.price)
       THEN [ok |-> FALSE, why |-> "cannotMatch", order |-> o]
       ELSE IF o.orderType = "FillOrKill"
               /\ ~CanFullyFill(b, o.side, o.price, o.initialQuantity)
       THEN [ok |-> FALSE, why |-> "cannotFullyFill", order |-> o]
       ELSE [ok |-> TRUE, why |-> "admitted", order |-> o]

\* std::make_shared in the caller: an object no container refers to.  The
\* object is named after its order id when that name is free.
NewHandle(b, order) ==
  IF order.orderId \notin DOMAIN b.heap THEN order.orderId
  ELSE Min(Handles \ DOMAIN b.heap)

PushBack(ladder, price, h) ==
  Put(ladder, price,
      Append(IF price \in DOMAIN ladder THEN ladder[price] ELSE <<>>, h))

\* Lines 322-336 of AddOrder
Insert(b, o) ==
  LET h == NewHandle(b, o)
  IN [heap   |-> Put(b.heap, h, o),
      bids   |-> IF o.side = "Buy" THEN PushBack(b.bids, o.price, h) ELSE b.bids,
      asks   |-> IF o.side = "Buy" THEN b.asks ELSE PushBack(b.asks, o.price, h),
      orders |-> Put(b.orders, o.orderId, h),
      data   |-> OnOrderAdded(b.data, o)]

\* ------------------------------------------------------------- MatchOrders
Crossing(b) ==
  /\ DOMAIN b.bids # {}
  /\ DOMAIN b.asks # {}
  /\ ~(Max(DOMAIN b.bids) < Min(DOMAIN b.asks))

\* the newest order of the top bid bucket instead of its head
TopBidNewest(b) ==
  b.bids[Max(DOMAIN b.bids)][Len(b.bids[Max(DOMAIN b.bids)])]

TopBid(b) == Head(b.bids[Max(DOMAIN b.bids)])
TopAsk(b) == Head(b.asks[Min(DOMAIN b.asks)])

PairQuantity(b) ==
  MinOf(b.heap[TopBid(b)].remainingQuantity, b.heap[TopAsk(b)].remainingQuantity)

PopFront(ladder, price) ==
  IF Tail(ladder[price]) = <<>>
  THEN Drop(ladder, price)
  ELSE Put(ladder, price, Tail(ladder[price]))

\* Lines 226-249: the two Fill calls and the removal of filled heads
PairFill(b) ==
  LET bidH == TopBid(b)
      askH == TopAsk(b)
      quantity == PairQuantity(b)
      bid == Fill(b.heap[bidH], quantity)
      ask == Fill(b.heap[askH], quantity)
      gone == (IF IsFilled(bid) THEN {bidH} ELSE {})
              \cup (IF IsFilled(ask) THEN {askH} ELSE {})
      goneIds == (IF IsFilled(bid) THEN {bid.orderId} ELSE {})
                 \cup (IF IsFilled(ask) THEN {ask.orderId} ELSE {})
  IN [heap   |-> [h \in DOMAIN b.heap \ gone |->
                    IF h = bidH THEN bid ELSE IF h = askH THEN ask ELSE b.heap[h]],
      bids   |-> IF IsFilled(bid) THEN PopFront(b.bids, bid.price) ELSE b.bids,
      asks   |-> IF IsFilled(ask) THEN PopFront(b.asks, ask.price) ELSE b.asks,
      orders |-> [id \in DOMAIN b.orders \ goneIds |-> b.orders[id]],
      data   |-> b.data]

\* a Trade whose two legs both carry the price of the bid
PairTradeOnePrice(b) ==
  LET bid == b.heap[TopBid(b)]
      ask == b.heap[TopAsk(b)]
  IN [bidTrade_ |-> [orderId_ |-> bid.orderId, price_ |-> bid.price,
                     quantity |-> PairQuantity(b)],
      askTrade_ |-> [orderId_ |-> ask.orderId, price_ |-> bid.price,
                     quantity |-> PairQuantity(b)]]

\* Lines 251-253: the Trade pushed for the pair
PairTrade(b) ==
  LET bid == b.heap[TopBid(b)]
      ask == b.heap[TopAsk(b)]
  IN [bidTrade_ |-> [orderId_ |-> bid.orderId, price_ |-> bid.price,
                     quantity |-> PairQuantity(b)],
      askTrade_ |-> [orderId_ |-> ask.orderId, price_ |-> ask.price,
                     quantity |-> PairQuantity(b)]]

\* Lines 255-256: the two level updates of the pair
PairData(b) ==
  LET quantity == PairQuantity(b)
      bid == Fill(b.heap[TopBid(b)], quantity)
      ask == Fill(b.heap[TopAsk(b)], quantity)
  IN OnOrderMatched(OnOrderMatched(b.data, bid.price, quantity, IsFilled(bid)),
                    ask.price, quantity, IsFilled(ask))

PairThrows(b) ==
  \/ FillThrows(b.heap[TopBid(b)], PairQuantity(b))
  \/ FillThrows(b.heap[TopAsk(b)], PairQuantity(b))

\* ------------------------------------------------------------- snapshots
\* the value Size() returns on book b
Size(b) == Cardinality(DOMAIN b.orders)

\* std::accumulate over one bucket: the sum of the remaining quantities
RECURSIVE Accumulate(_, _)
Accumulate(heapOf, orders) ==
  IF orders = <<>> THEN 0
  ELSE heapOf[Head(orders)].remainingQuantity + Accumulate(heapOf, Tail(orders))

\* the prices of a ladder in the order its std::map iterates them
RECURSIVE Descending(_)
Descending(S) ==
  IF S = {} THEN <<>> ELSE <<Max(S)>> \o Descending(S \ {Max(S)})
RECURSIVE Ascending(_)
Ascending(S) ==
  IF S = {} THEN <<>> ELSE <<Min(S)>> \o Ascending(S \ {Min(S)})

CreateLevelInfos(heapOf, ladder, prices) ==
  [i \in 1..Len(prices) |->
     [price_ |-> prices[i], quantity_ |-> Accumulate(heapOf, ladder[prices[i]])]]

\* the value GetOrderInfos() returns when it reads book b
GetOrderInfos(b) ==
  [bids_ |-> CreateLevelInfos(b.heap, b.bids, Descending(DOMAIN b.bids)),
   asks_ |-> CreateLevelInfos(b.heap, b.asks, Ascending(DOMAIN b.asks))]

\* ------------------------------------------------------------- actions
Install(b) ==
  /\ heap' = b.heap
  /\ bids_' = b.bids
  /\ asks_' = b.asks
  /\ orders_' = b.orders
  /\ data_' = b.data

Did(op, res) == [op |-> op, res |-> res]

\* The calling program is running: it has not been ended by an exception it
\* does not survive.
Alive == throws < MaxThrows

\* No thread holds ordersMutex_ and the program is running.
Free == pc = "idle" /\ Alive

\* AddOrder up to the call of MatchOrders, on book b (the book as found by
\* AddOrder, or as left by the CancelOrder of ModifyOrder).
Admit(op, b, order) ==
  LET a == Admission(b, order)
  IN IF a.ok
     THEN /\ Install(Insert(b, a.order))
          /\ pc' = "match"
          /\ cur' = NewHandle(b, a.order)
          /\ trades' = <<>>
          /\ last' = Did(op, "running")
          /\ UNCHANGED throws
     ELSE /\ Install(b)
          /\ trades' = <<>>
          /\ last' = Did(op, a.why)
          /\ UNCHANGED <<pc, cur, throws>>

AddOrder(order) ==
  /\ Free
  /\ Admit("AddOrder", Book, order)

\* One pass of the inner while loop of MatchOrders whose push_back succeeds.
MatchPair ==
  /\ pc = "match"
  /\ Crossing(Book)
  /\ ~PairThrows(Book)
  /\ Len(trades) < MaxTrades
  /\ Install([PairFill(Book) EXCEPT !.data = PairData(Book)])
  /\ trades' = Append(trades, PairTrade(Book))
  /\ UNCHANGED <<pc, cur, last, throws>>

\* A pass that ends in an exception: Fill throws std::logic_error, or the
\* trades vector cannot grow and push_back throws after the two Fill calls and
\* the pops, before the level updates.  The exception leaves MatchOrders and
\* AddOrder; the scoped_lock of AddOrder releases the mutex.
MatchThrow ==
  /\ pc = "match"
  /\ Crossing(Book)
  /\ \/ /\ PairThrows(Book)
        /\ UNCHANGED <<heap, bids_, asks_, orders_, data_>>
     \/ /\ ~PairThrows(Book)
        /\ Len(trades) = MaxTrades
        /\ Install(PairFill(Book))
  /\ pc' = "idle"
  /\ cur' = 0
  /\ trades' = <<>>
  /\ last' = [last EXCEPT !.res = "threw"]
  /\ throws' = throws + 1

\* CancelOrderInternal binds `order` and `iterator` by reference to the
\* OrderEntry inside orders_ (line 96) and erases that entry (line 97) before
\* it reads them (lines 99-115): the reads are of a destroyed object.  The
\* builds either read the values the entry held, its storage not being reused
\* in between, or fault on the read (a checking or poisoning allocator), which
\* ends the process.
DanglingOutcomes == {"reads", "faults"}

\* The process ends in the first CancelOrderInternal of a call that cancels
\* the orders `ids`, after the erase of line 97.
Fault(op, b, ids) ==
  /\ \E id \in ids : Install([b EXCEPT !.orders = Drop(@, id)])
  /\ pc' = "dead"
  /\ cur' = 0
  /\ trades' = <<>>
  /\ last' = Did(op, "faulted")
  /\ UNCHANGED throws

\* The ids CancelOrder is called with after the loop (lines 260-272): the head
\* of the top bucket of each side when it is a FillAndKill order.
ResidualOf(b, ladder, top) ==
  IF DOMAIN ladder = {} THEN {}
  ELSE LET o == b.heap[Head(ladder[top])]
       IN IF o.orderType = "FillAndKill" THEN {o.orderId} ELSE {}

\* CancelOrder locks ordersMutex_, which the thread running AddOrder holds:
\* locking a std::mutex its owner holds is undefined.  The builds either block
\* for ever, or report the deadlock as std::system_error, or lock again and go
\* on.
RelockOutcomes == {"hang", "throw", "proceed"}

\* The loop has ended (one side empty, or bidPrice < askPrice).
MatchEnd ==
  /\ pc = "match"
  /\ ~Crossing(Book)
  /\ LET bidRes == ResidualOf(Book, bids_, Max(DOMAIN bids_))
         afterBid == CancelOrders(Book, bidRes)
         askRes == ResidualOf(afterBid, afterBid.asks, Min(DOMAIN afterBid.asks))
     IN IF bidRes = {} /\ ResidualOf(Book, asks_, Min(DOMAIN asks_)) = {}
        THEN /\ pc' = "idle"
             /\ cur' = 0
             /\ last' = [last EXCEPT !.res = "returned"]
             /\ UNCHANGED <<heap, bids_, asks_, orders_, data_, trades, throws>>
        ELSE \E outcome \in RelockOutcomes :
               \/ /\ outcome = "hang"
                  /\ pc' = "hung"
                  /\ last' = [last EXCEPT !.res = "hung"]
                  /\ UNCHANGED <<heap, bids_, asks_, orders_, data_, cur,
                                 trades, throws>>
               \/ /\ outcome = "throw"
                  /\ pc' = "idle"
                  /\ cur' = 0
                  /\ trades' = <<>>
                  /\ last' = [last EXCEPT !.res = "threw"]
                  /\ throws' = throws + 1
                  /\ UNCHANGED <<heap, bids_, asks_, orders_, data_>>
               \/ /\ outcome = "proceed"
                  /\ \E dangling \in DanglingOutcomes :
                       IF dangling = "faults"
                       THEN Fault(last.op, Book,
                                  IF bidRes # {} THEN bidRes
                                  ELSE ResidualOf(Book, asks_, Min(DOMAIN asks_)))
                       ELSE /\ Install(CancelOrders(afterBid, askRes))
                            /\ pc' = "idle"
                            /\ cur' = 0
                            /\ last' = [last EXCEPT !.res = "returned"]
                            /\ UNCHANGED <<trades, throws>>

\* CancelOrder once it has taken the mutex
CancelOrderLocked(orderId) ==
  IF orderId \notin DOMAIN orders_
  THEN /\ Install(CancelOrderInternal(Book, orderId))
       /\ trades' = <<>>
       /\ last' = Did("CancelOrder", "absent")
       /\ UNCHANGED <<pc, cur, throws>>
  ELSE \E dangling \in DanglingOutcomes :
         IF dangling = "faults"
         THEN Fault("CancelOrder", Book, {orderId})
         ELSE /\ Install(CancelOrderInternal(Book, orderId))
              /\ trades' = <<>>
              /\ last' = Did("CancelOrder", "done")
              /\ UNCHANGED <<pc, cur, throws>>

CancelOrder(orderId) ==
  /\ Free
  /\ CancelOrderLocked(orderId)

\* OrderModify::ToOrderPointer
ToOrderPointer(modify, type) ==
  Order(type, modify.orderId_, modify.side_, modify.price_, modify.quantity_)

\* ModifyOrder run by a client while no other thread takes the mutex between
\* its three acquisitions: read the type, CancelOrder, AddOrder.  What another
\* thread does between them is a CancelOrder or an AddOrder of this Next.
ModifyOrder(modify) ==
  /\ Free
  /\ IF modify.orderId_ \notin DOMAIN orders_
     THEN /\ trades' = <<>>
          /\ last' = Did("ModifyOrder", "absent")
          /\ UNCHANGED <<heap, bids_, asks_, orders_, data_, pc, cur, throws>>
     ELSE LET orderType == heap[orders_[modify.orderId_]].orderType
          IN \E dangling \in DanglingOutcomes :
               IF dangling = "faults"
               THEN Fault("ModifyOrder", Book, {modify.orderId_})
               ELSE Admit("ModifyOrder",
                          CancelOrderInternal(Book, modify.orderId_),
                          ToOrderPointer(modify, orderType))

\* One pass of the loop of PruneGoodForDayOrders after its timed wait has
\* timed out: under the mutex it collects the ids of the GoodForDay orders
\* (lines 59-72), then CancelOrders takes the mutex again and cancels them
\* (line 74).  The pass is taken with no client operation between the two
\* acquisitions; what a client does between them leaves the batch a sequence
\* of CancelOrderInternal calls, each of which is a CancelOrder of this Next.
GoodForDayIds(b) ==
  {id \in DOMAIN b.orders : b.heap[b.orders[id]].orderType = "GoodForDay"}

PruneGoodForDayOrders ==
  /\ Free
  /\ \E dangling \in DanglingOutcomes :
       IF dangling = "faults" /\ GoodForDayIds(Book) # {}
       THEN Fault("Prune", Book, GoodForDayIds(Book))
       ELSE /\ Install(CancelOrders(Book, GoodForDayIds(Book)))
            /\ trades' = <<>>
            /\ last' = Did("Prune", "done")
            /\ UNCHANGED <<pc, cur, throws>>

\* ------------------------------------------------------------- threads
ClientVars == <<heap, bids_, asks_, orders_, data_, pc, cur, trades, last, throws>>
ThreadVars == <<shutdown_, prunerPc, pruneIds, dtorPc>>

NoSeen == [op |-> "none"]
Unseen == seen' = NoSeen
\* a step of the book with the threads of the pruner and the destructor apart
Apart == UNCHANGED ThreadVars /\ UNCHANGED modifier /\ Unseen

\* the process has not been ended by an exception or a fault
Running == Alive /\ pc # "dead"
\* The pruner holds ordersMutex_ between its lock of line 42 and the moment
\* wait_for releases it; its other sections are single steps below.
PrunerHolds == prunerPc = "checked"
MutexFree == pc = "idle" /\ ~PrunerHolds
\* clients call the Orderbook until its destruction begins
ClientMay == dtorPc = "live" /\ ~PrunerHolds

\* Lines 42-53: lock and load shutdown_.
PrunerCheck ==
  /\ Running
  /\ prunerPc = "start"
  /\ MutexFree
  /\ prunerPc' = IF shutdown_ THEN "exited" ELSE "checked"
  /\ UNCHANGED <<shutdown_, pruneIds, dtorPc>>
  /\ UNCHANGED ClientVars

\* Line 54: wait_for releases the mutex and blocks.
PrunerWait ==
  /\ Running
  /\ prunerPc = "checked"
  /\ prunerPc' = "waiting"
  /\ UNCHANGED <<shutdown_, pruneIds, dtorPc>>
  /\ UNCHANGED ClientVars

\* wait_for wakes with no notification and before the timeout (a condition
\* variable may wake spuriously) and will return no_timeout.
PrunerSpuriousWake ==
  /\ Running
  /\ prunerPc = "waiting"
  /\ prunerPc' = "woken"
  /\ UNCHANGED <<shutdown_, pruneIds, dtorPc>>
  /\ UNCHANGED ClientVars

\* Lines 54-56: wait_for takes the mutex again and returns no_timeout; the
\* pruner returns, whatever shutdown_ holds.
PrunerReturn ==
  /\ Running
  /\ prunerPc = "woken"
  /\ MutexFree
  /\ prunerPc' = "exited"
  /\ UNCHANGED <<shutdown_, pruneIds, dtorPc>>
  /\ UNCHANGED ClientVars

\* Lines 54-57: the wait times out, wait_for takes the mutex again and returns
\* timeout; the pruner leaves the block without reading shutdown_ again.
PrunerTimeout ==
  /\ Running
  /\ prunerPc = "waiting"
  /\ MutexFree
  /\ prunerPc' = "scan"
  /\ UNCHANGED <<shutdown_, pruneIds, dtorPc>>
  /\ UNCHANGED ClientVars

\* Lines 59-72: under the mutex, collect the ids of the GoodForDay orders.
PrunerScan ==
  /\ Running
  /\ prunerPc = "scan"
  /\ MutexFree
  /\ pruneIds' = GoodForDayIds(Book)
  /\ prunerPc' = "cancel"
  /\ UNCHANGED <<shutdown_, dtorPc>>
  /\ UNCHANGED ClientVars

\* Line 74: CancelOrders(orderIds), under the mutex, then back to line 24.
PrunerCancel ==
  /\ Running
  /\ prunerPc = "cancel"
  /\ MutexFree
  /\ \E dangling \in DanglingOutcomes :
       IF dangling = "faults" /\ pruneIds \cap DOMAIN orders_ # {}
       THEN Fault("Prune", Book, pruneIds \cap DOMAIN orders_)
       ELSE /\ Install(CancelOrders(Book, pruneIds))
            /\ trades' = <<>>
            /\ last' = Did("Prune", "done")
            /\ UNCHANGED <<pc, cur, throws>>
  /\ prunerPc' = "start"
  /\ pruneIds' = {}
  /\ UNCHANGED <<shutdown_, dtorPc>>

\* Line 288: shutdown_.store(true).  The Orderbook is destroyed by a running
\* program while no call on it is in progress.
DestructorStore ==
  /\ Running
  /\ pc = "idle"
  /\ dtorPc = "live"
  /\ shutdown_' = TRUE
  /\ dtorPc' = "stored"
  /\ UNCHANGED <<prunerPc, pruneIds>>
  /\ UNCHANGED ClientVars

\* Line 290: notify_one wakes the pruner when it is blocked in wait_for, and
\* does nothing otherwise.
DestructorNotify ==
  /\ Running
  /\ dtorPc = "stored"
  /\ prunerPc' = IF prunerPc = "waiting" THEN "woken" ELSE prunerPc
  /\ dtorPc' = "joining"
  /\ UNCHANGED <<shutdown_, pruneIds>>
  /\ UNCHANGED ClientVars

\* Line 291: join returns once the pruner thread has returned.
DestructorJoin ==
  /\ Running
  /\ dtorPc = "joining"
  /\ prunerPc = "exited"
  /\ dtorPc' = "joined"
  /\ UNCHANGED <<shutdown_, prunerPc, pruneIds>>
  /\ UNCHANGED ClientVars

\* Size() takes the mutex and reads orders_.size().
SizeCall ==
  /\ Running
  /\ ClientMay
  /\ pc = "idle"
  /\ seen' = [op |-> "Size", res |-> "returned", value |-> Size(Book)]
  /\ UNCHANGED ThreadVars
  /\ UNCHANGED ClientVars

\* GetOrderInfos() takes no lock.  Called while another thread is inside
\* AddOrder, its reads of bids_, asks_ and the orders race with that thread's
\* writes: a data race, undefined.  The builds either return what the
\* containers hold at that moment or fault walking a list that is being
\* changed.
RaceOutcomes == {"reads", "faults"}

GetOrderInfosCall ==
  /\ Running
  /\ dtorPc = "live"
  /\ pc \in {"idle", "match"}
  /\ \E race \in RaceOutcomes :
       IF race = "faults" /\ pc = "match"
       THEN /\ seen' = [op |-> "GetOrderInfos", res |-> "faulted",
                        value |-> GetOrderInfos(Book)]
            /\ pc' = "dead"
            /\ UNCHANGED <<heap, bids_, asks_, orders_, data_, cur, trades, last,
                           throws>>
       ELSE /\ seen' = [op |-> "GetOrderInfos", res |-> "returned",
                        value |-> GetOrderInfos(Book)]
            /\ UNCHANGED ClientVars
  /\ UNCHANGED ThreadVars

\* ModifyOrder step by step.  It takes ordersMutex_ three times: in its own
\* block (lines 353-361), inside CancelOrder (line 363) and inside AddOrder
\* (line 364); between them the mutex is free and other threads run.
NoModify == [pc |-> "none"]

\* The book ModifyOrder(order) leaves at the insertion of its AddOrder when no
\* other thread runs between its three acquisitions.
ModifyOrderOn(b, order) ==
  IF order.orderId_ \notin DOMAIN b.orders
  THEN b
  ELSE LET orderType == b.heap[b.orders[order.orderId_]].orderType
           cancelled == CancelOrderInternal(b, order.orderId_)
           a == Admission(cancelled, ToOrderPointer(order, orderType))
       IN IF a.ok THEN Insert(cancelled, a.order) ELSE cancelled

\* Lines 353-361: under the mutex, return {} when the id is absent, else read
\* the type of the resting order; the scoped_lock ends with the block.
ModifyRead(order) ==
  /\ Free
  /\ modifier.pc \in {"none", "added"}
  /\ IF order.orderId_ \notin DOMAIN orders_
     THEN /\ trades' = <<>>
          /\ last' = Did("ModifyOrder", "absent")
          /\ modifier' = NoModify
     ELSE /\ modifier' = [pc |-> "read", order |-> order,
                          orderType |-> heap[orders_[order.orderId_]].orderType,
                          found |-> FALSE]
          /\ UNCHANGED <<trades, last>>
  /\ UNCHANGED <<heap, bids_, asks_, orders_, data_, pc, cur, throws>>

\* Line 363: CancelOrder(order.GetOrderId()); `found` records whether the id
\* was still in orders_.
ModifyCancel ==
  /\ Free
  /\ modifier.pc = "read"
  /\ CancelOrderLocked(modifier.order.orderId_)
  /\ modifier' = [modifier EXCEPT !.pc = "cancelled",
                                  !.found = modifier.order.orderId_ \in DOMAIN orders_]

\* the re-add made only when the CancelOrder of line 363 removed the order
ModifyAddIfCancelled ==
  /\ Free
  /\ modifier.pc = "cancelled"
  /\ IF modifier.found
     THEN Admit("ModifyOrder", Book,
                ToOrderPointer(modifier.order, modifier.orderType))
     ELSE /\ trades' = <<>>
          /\ last' = Did("ModifyOrder", "absent")
          /\ UNCHANGED <<heap, bids_, asks_, orders_, data_, pc, cur, throws>>
  /\ modifier' = [modifier EXCEPT !.pc = "added"]

\* Line 364: AddOrder(order.ToOrderPointer(orderType)), with the type read in
\* the first block.
ModifyAdd ==
  /\ Free
  /\ modifier.pc = "cancelled"
  /\ Admit("ModifyOrder", Book, ToOrderPointer(modifier.order, modifier.orderType))
  /\ modifier' = [modifier EXCEPT !.pc = "added"]

\* Constants::InvalidPrice, the price a Market order is built with
InvalidPrice == 0

Orders ==
  {Order(t, id, s, p, q) : t \in OrderTypes \ {"Market"}, id \in Ids,
                           s \in Sides, p \in Prices, q \in Quantities}
  \cup {Order("Market", id, s, InvalidPrice, q) :
           id \in Ids, s \in Sides, q \in Quantities}

Modifies == [orderId_ : Ids, side_ : Sides, price_ : Prices, quantity_ : Quantities]

\* no call is running / no AddOrder has been admitted since the last other call
NoArg == [orderId |-> 0]
NoBook == [orders |-> EmptyMap, id |-> 0]

\* The call running after the step holds its argument x; a call that has
\* ended holds none.
Given(x) == given' = IF pc' = "match" THEN x ELSE NoArg

\* An AddOrder call that is admitted remembers the book it found, until the
\* next call of another operation or the exception that ends it.
Found(order) ==
  before' = IF pc' = "match" THEN Book @@ [id |-> order.orderId] ELSE NoBook
Kept == before' = IF last'.res = "threw" \/ pc' = "dead" THEN NoBook ELSE before
Lost == before' = NoBook

Init ==
  /\ given = NoArg
  /\ before = NoBook
  /\ shutdown_ = FALSE
  /\ prunerPc = "start"
  /\ pruneIds = {}
  /\ dtorPc = "live"
  /\ seen = NoSeen
  /\ modifier = NoModify
  /\ heap = EmptyMap
  /\ bids_ = EmptyMap
  /\ asks_ = EmptyMap
  /\ orders_ = EmptyMap
  /\ data_ = EmptyMap
  /\ pc = "idle"
  /\ cur = 0
  /\ trades = <<>>
  /\ last = Did("none", "none")
  /\ throws = 0

\* The book under client calls made one at a time, with each cycle of the
\* pruner taken whole and the Orderbook never destroyed.
Next ==
  \/ \E order \in Orders : AddOrder(order) /\ Given(order) /\ Found(order) /\ Apart
  \/ MatchPair /\ Given(given) /\ Kept /\ Apart
  \/ MatchThrow /\ Given(given) /\ Kept /\ Apart
  \/ MatchEnd /\ Given(given) /\ Kept /\ Apart
  \/ \E orderId \in Ids : CancelOrder(orderId) /\ Given(NoArg) /\ Lost /\ Apart
  \/ \E modify \in Modifies : ModifyOrder(modify) /\ Given(modify) /\ Lost /\ Apart
  \/ PruneGoodForDayOrders /\ Given(NoArg) /\ Lost /\ Apart

Spec == Init /\ [][Next]_vars

\* The book with its threads: clients that call one at a time, the pruner
\* thread step by step, readers of Size and GetOrderInfos, and the thread that
\* destroys the Orderbook.
ThreadOrders ==
  {Order(t, id, s, p, q) : t \in {"GoodForDay", "GoodTillCancel"},
                           id \in 1..MaxSmallId, s \in Sides, p \in Prices,
                           q \in {1}}

NextThreads ==
  \/ \E order \in ThreadOrders :
       ClientMay /\ AddOrder(order) /\ Given(order) /\ Found(order) /\ Apart
  \/ MatchPair /\ Given(given) /\ Kept /\ Apart
  \/ MatchThrow /\ Given(given) /\ Kept /\ Apart
  \/ MatchEnd /\ Given(given) /\ Kept /\ Apart
  \/ \E orderId \in 1..MaxSmallId :
       ClientMay /\ CancelOrder(orderId) /\ Given(NoArg) /\ Lost /\ Apart
  \/ PrunerCheck /\ UNCHANGED <<given, before, modifier>> /\ Unseen
  \/ PrunerWait /\ UNCHANGED <<given, before, modifier>> /\ Unseen
  \/ PrunerSpuriousWake /\ UNCHANGED <<given, before, modifier>> /\ Unseen
  \/ PrunerReturn /\ UNCHANGED <<given, before, modifier>> /\ Unseen
  \/ PrunerTimeout /\ UNCHANGED <<given, before, modifier>> /\ Unseen
  \/ PrunerScan /\ UNCHANGED <<given, before, modifier>> /\ Unseen
  \/ PrunerCancel /\ Given(NoArg) /\ Lost /\ Unseen /\ UNCHANGED modifier
  \/ DestructorStore /\ UNCHANGED <<given, before, modifier>> /\ Unseen
  \/ DestructorNotify /\ UNCHANGED <<given, before, modifier>> /\ Unseen
  \/ DestructorJoin /\ UNCHANGED <<given, before, modifier>> /\ Unseen
  \/ SizeCall /\ UNCHANGED <<given, before, modifier>>
  \/ GetOrderInfosCall /\ UNCHANGED <<given, before, modifier>>

SpecThreads == Init /\ [][NextThreads]_vars

\* The book under clients that call AddOrder and CancelOrder beside a thread
\* that runs ModifyOrder step by step.
ThreadModifies ==
  [orderId_ : 1..MaxSmallId, side_ : Sides, price_ : Prices, quantity_ : {1}]

NextModify ==
  \/ \E order \in ThreadOrders :
       AddOrder(order) /\ Given(order) /\ Found(order) /\ Apart
  \/ MatchPair /\ Given(given) /\ Kept /\ Apart
  \/ MatchThrow /\ Given(given) /\ Kept /\ Apart
  \/ MatchEnd /\ Given(given) /\ Kept /\ Apart
  \/ \E orderId \in 1..MaxSmallId :
       CancelOrder(orderId) /\ Given(NoArg) /\ Lost /\ Apart
  \/ \E order \in ThreadModifies :
       ModifyRead(order) /\ Given(NoArg) /\ Lost /\ UNCHANGED ThreadVars /\ Unseen
  \/ ModifyCancel /\ Given(NoArg) /\ Lost /\ UNCHANGED ThreadVars /\ Unseen
  \/ ModifyAdd /\ Given(modifier.order) /\ Lost /\ UNCHANGED ThreadVars /\ Unseen

SpecModify == Init /\ [][NextModify]_vars

\* The book under the calls of a program that catches the exceptions AddOrder
\* throws and goes on calling: the orders an AddOrder that threw has left in
\* the book meet later calls.
Caught == pc = "idle" /\ throws < MaxThrows + MaxCaught

CaughtOrders ==
  {Order(t, id, s, p, q) : t \in {"GoodTillCancel", "FillAndKill"},
                           id \in 1..MaxSmallId, s \in Sides, p \in Prices,
                           q \in {1}}

NextCaught ==
  \/ \E order \in CaughtOrders :
       Caught /\ Admit("AddOrder", Book, order) /\ Given(order) /\ Found(order)
              /\ Apart
  \/ MatchPair /\ Given(given) /\ Kept /\ Apart
  \/ MatchThrow /\ Given(given) /\ Kept /\ Apart
  \/ MatchEnd /\ Given(given) /\ Kept /\ Apart
  \/ \E orderId \in 1..MaxSmallId :
       Caught /\ CancelOrderLocked(orderId) /\ Given(NoArg) /\ Lost /\ Apart

SpecCaught == Init /\ [][NextCaught]_vars

\* ------------------------------------------------------------- properties
RECURSIVE SumOver(_, _)
SumOver(f, S) ==
  IF S = {} THEN 0
  ELSE LET x == CHOOSE y \in S : TRUE IN f[x] + SumOver(f, S \ {x})

\* the handles held by the buckets of a ladder
HandlesIn(ladder) ==
  UNION {{ladder[p][i] : i \in 1..Len(ladder[p])} : p \in DOMAIN ladder}
\* how many list nodes of the ladder hold handle h
NodesOf(ladder, h) ==
  SumOver([p \in DOMAIN ladder |->
             Cardinality({i \in 1..Len(ladder[p]) : ladder[p][i] = h})],
          DOMAIN ladder)
LadderLength(ladder) == SumOver([p \in DOMAIN ladder |-> Len(ladder[p])], DOMAIN ladder)
Resting == HandlesIn(bids_) \cup HandlesIn(asks_)
RestingAt(p) == {h \in Resting : h \in DOMAIN heap /\ heap[h].price = p}
BookVars == <<heap, bids_, asks_, orders_, data_>>
\* an operation has ended: by a return or by an exception
Ended == pc = "match" /\ pc' = "idle"

\* C1: after every completed public operation, if both ladders are non-empty
\* the highest bid price is strictly less than the lowest ask price.
C1_TopBidBelowTopAsk ==
  (pc = "idle" /\ DOMAIN bids_ # {} /\ DOMAIN asks_ # {})
    => Max(DOMAIN bids_) < Min(DOMAIN asks_)

\* C2: after every completed public operation data_ has an entry exactly for
\* the prices that have resting orders, with count_ the number of resting
\* orders at the price and quantity_ the sum of their remaining quantities.
C2_LevelDataMatchesLadders ==
  pc = "idle" =>
    /\ DOMAIN data_ = DOMAIN bids_ \cup DOMAIN asks_
    /\ \A p \in DOMAIN data_ :
         /\ data_[p].count_ = Cardinality(RestingAt(p))
         /\ data_[p].quantity_ =
              SumOver([h \in RestingAt(p) |-> heap[h].remainingQuantity],
                      RestingAt(p))

\* C3: after every completed public operation the index and the ladders are in
\* one-to-one correspondence: every indexed id is held by exactly one list
\* node, in the bucket of its own side and price; every bucket entry is
\* indexed; orders_.size() is the sum of the FIFO lengths.
C3_IndexMatchesLadders ==
  pc = "idle" =>
    /\ \A id \in DOMAIN orders_ :
         LET h == orders_[id]
         IN /\ h \in DOMAIN heap
            /\ heap[h].orderId = id
            /\ NodesOf(bids_, h) + NodesOf(asks_, h) = 1
            /\ LET own == IF heap[h].side = "Buy" THEN bids_ ELSE asks_
               IN /\ heap[h].price \in DOMAIN own
                  /\ Contains(own[heap[h].price], h)
    /\ \A h \in Resting :
         /\ h \in DOMAIN heap
         /\ heap[h].orderId \in DOMAIN orders_
         /\ orders_[heap[h].orderId] = h
    /\ Cardinality(DOMAIN orders_) = LadderLength(bids_) + LadderLength(asks_)

C3_Witness ==
  /\ pc = "idle"
  /\ last = Did("CancelOrder", "done")
  /\ Cardinality(DOMAIN orders_) = 2
  /\ DOMAIN bids_ # {}
  /\ DOMAIN asks_ # {}

\* C4: when AddOrder of a FillAndKill order has ended, the order's id is not in
\* orders_ and the order is in no bucket of bids_ or asks_.
C4_FillAndKillNeverRests ==
  [][(Ended /\ heap[cur].orderType = "FillAndKill")
       => /\ heap[cur].orderId \notin DOMAIN orders_'
          /\ cur \notin HandlesIn(bids_') \cup HandlesIn(asks_')]_vars

\* the quantity the trades give to order id
RECURSIVE TradedQuantity(_, _)
TradedQuantity(ts, id) ==
  IF ts = <<>> THEN 0
  ELSE (IF Head(ts).bidTrade_.orderId_ = id THEN Head(ts).bidTrade_.quantity ELSE 0)
       + (IF Head(ts).askTrade_.orderId_ = id THEN Head(ts).askTrade_.quantity ELSE 0)
       + TradedQuantity(Tail(ts), id)

\* C5: AddOrder of a FillOrKill order with a fresh id either returns trades
\* that fill its whole initial quantity, the order then being in neither a
\* ladder nor orders_, or returns no trade and leaves bids_, asks_, orders_ and
\* data_ unchanged.
C5_FillOrKillAllOrNothing ==
  [][/\ (pc = "idle" /\ pc' = "idle" /\ last'.op = "AddOrder")
          => (trades' = <<>> /\ UNCHANGED BookVars)
     /\ (Ended /\ heap[cur].orderType = "FillOrKill")
          => /\ TradedQuantity(trades', heap[cur].orderId) = heap[cur].initialQuantity
             /\ heap[cur].orderId \notin DOMAIN orders_'
             /\ cur \notin HandlesIn(bids_') \cup HandlesIn(asks_')]_vars

\* C6: every trade formed by the crossing loop has equal bid-leg and ask-leg
\* quantities, strictly positive, a bid-leg price not below the ask-leg price,
\* and legs that carry the id and the own limit price of the orders at the
\* head of the two top buckets when the pair was formed.
C6_TradesWellFormed ==
  [][Len(trades') = Len(trades) + 1
       => LET t == trades'[Len(trades')]
              bid == heap[Head(bids_[Max(DOMAIN bids_)])]
              ask == heap[Head(asks_[Min(DOMAIN asks_)])]
          IN /\ t.bidTrade_.quantity = t.askTrade_.quantity
             /\ t.bidTrade_.quantity > 0
             /\ t.bidTrade_.price_ >= t.askTrade_.price_
             /\ t.bidTrade_.orderId_ = bid.orderId
             /\ t.bidTrade_.price_ = bid.price
             /\ t.askTrade_.orderId_ = ask.orderId
             /\ t.askTrade_.price_ = ask.price]_vars

C6_Witness ==
  /\ Len(trades) = MaxTrades
  /\ trades[1].bidTrade_.price_ > trades[1].askTrade_.price_

\* C7: after every public operation every resting order has
\* 0 < remainingQuantity <= initialQuantity, and no order with remaining
\* quantity 0 is in a ladder or in orders_.
C7_RestingQuantityInRange ==
  pc = "idle" =>
    \A h \in Resting \cup {orders_[id] : id \in DOMAIN orders_} :
      /\ h \in DOMAIN heap
      /\ 0 < heap[h].remainingQuantity
      /\ heap[h].remainingQuantity <= heap[h].initialQuantity

C7_Witness ==
  /\ pc = "idle"
  /\ last.res = "threw"
  /\ Cardinality(Resting) = MaxId

\* C8: each pairing of the crossing loop with traded quantity q decreases the
\* remaining quantity of the bid order and of the ask order by exactly q (an
\* order the pairing removes had exactly q remaining).
C8_PairingDebitsBothLegs ==
  [][Len(trades') = Len(trades) + 1
       => LET q == trades'[Len(trades')].bidTrade_.quantity
          IN \A h \in {Head(bids_[Max(DOMAIN bids_)]), Head(asks_[Min(DOMAIN asks_)])} :
               IF h \in DOMAIN heap'
               THEN heap'[h].remainingQuantity = heap[h].remainingQuantity - q
               ELSE heap[h].remainingQuantity = q]_vars

\* C9: the crossing loop consumes resting orders in price-time priority: the
\* order on each leg of a new trade has no resting order of its side at a
\* strictly better price and none ahead of it in its own bucket.
C9_PriceTimePriority ==
  [][Len(trades') = Len(trades) + 1
       => LET t == trades'[Len(trades')]
              b == orders_[t.bidTrade_.orderId_]
              a == orders_[t.askTrade_.orderId_]
          IN /\ \A h \in HandlesIn(bids_) : heap[h].price <= heap[b].price
             /\ \A h \in HandlesIn(asks_) : heap[h].price >= heap[a].price
             /\ bids_[heap[b].price][1] = b
             /\ asks_[heap[a].price][1] = a]_vars

C9_Witness ==
  /\ trades # <<>>
  /\ \E p \in DOMAIN bids_ :
       /\ Len(bids_[p]) = 2
       /\ trades[1].bidTrade_.orderId_ = heap[bids_[p][1]].orderId

\* C10: AddOrder with an id that is already in orders_ returns no trade and
\* leaves bids_, asks_, orders_, data_ and the resting orders unchanged: a call
\* of AddOrder either admits an order whose id was not in orders_, or returns
\* no trade with the five containers as they were.
C10_DuplicateIdIsNoOp ==
  [][(pc = "idle" /\ last'.op = "AddOrder")
       => IF pc' = "match"
          THEN heap'[cur'].orderId \notin DOMAIN orders_
          ELSE UNCHANGED BookVars /\ trades' = <<>> /\ pc' = "idle"]_vars

C10_Witness ==
  /\ last = Did("AddOrder", "duplicate")
  /\ Cardinality(DOMAIN orders_) = 2

\* the three rejections of C11, as conditions on the book a call finds
SilentRejection(b, order) ==
  \/ /\ order.orderType = "Market"
     /\ DOMAIN (IF order.side = "Buy" THEN b.asks ELSE b.bids) = {}
  \/ /\ order.orderType = "FillAndKill"
     /\ ~CanMatch(b, order.side, order.price)
  \/ /\ order.orderType = "FillOrKill"
     /\ ~CanFullyFill(b, order.side, order.price, order.initialQuantity)

\* C11: AddOrder of a Market order when the opposite side is empty, of a
\* FillAndKill order for which CanMatch is false, or of a FillOrKill order for
\* which CanFullyFill is false returns no trade and leaves bids_, asks_,
\* orders_ and data_ as they were: a call that is admitted has an argument that
\* is none of the three, and a call that is not admitted changes nothing.
C11_SilentRejectionLeavesBook ==
  [][(pc = "idle" /\ last'.op = "AddOrder")
       => IF pc' = "match"
          THEN ~SilentRejection(Book, given')
          ELSE /\ UNCHANGED BookVars
               /\ trades' = <<>>
               /\ pc' = "idle"]_vars

\* a FillOrKill order that could match but not in full has been rejected
C11_Witness ==
  /\ last = Did("AddOrder", "cannotFullyFill")
  /\ DOMAIN orders_ # {}
  /\ \E order \in Orders :
       /\ order.orderType = "FillOrKill"
       /\ CanMatch(Book, order.side, order.price)
       /\ ~CanFullyFill(Book, order.side, order.price, order.initialQuantity)

\* C12: AddOrder of a Market order when the opposite side is non-empty
\* reprices it to the worst opposite-side price and retypes it GoodTillCancel;
\* when the call has ended either the order is fully filled, or the whole
\* opposite side has been consumed and the residual rests as a GoodTillCancel
\* order at that price on its own side.
C12_MarketSweepsOrRests ==
  [][/\ (pc = "idle" /\ pc' = "match" /\ last'.op = "AddOrder"
           /\ given'.orderType = "Market")
          => /\ heap'[cur'].orderType = "GoodTillCancel"
             /\ heap'[cur'].price = IF given'.side = "Buy"
                                    THEN Max(DOMAIN asks_) ELSE Min(DOMAIN bids_)
             /\ heap'[cur'].orderId = given'.orderId
             /\ heap'[cur'].side = given'.side
             /\ heap'[cur'].initialQuantity = given'.initialQuantity
     /\ (Ended /\ last.op = "AddOrder" /\ given.orderType = "Market")
          => \/ /\ TradedQuantity(trades', given.orderId) = given.initialQuantity
                /\ given.orderId \notin DOMAIN orders_'
                /\ cur \notin HandlesIn(bids_') \cup HandlesIn(asks_')
             \/ /\ DOMAIN (IF given.side = "Buy" THEN asks_' ELSE bids_') = {}
                /\ given.orderId \in DOMAIN orders_'
                /\ orders_'[given.orderId] = cur
                /\ heap'[cur].orderType = "GoodTillCancel"
                /\ heap'[cur].price = heap[cur].price
                /\ heap'[cur].remainingQuantity
                     = given.initialQuantity - TradedQuantity(trades', given.orderId)
                /\ LET own == IF given.side = "Buy" THEN bids_' ELSE asks_'
                   IN /\ heap[cur].price \in DOMAIN own
                      /\ Contains(own[heap[cur].price], cur)]_vars

\* C13: AddOrder of a GoodTillCancel or GoodForDay order with a fresh id that
\* does not cross, followed immediately by CancelOrder of that id, restores
\* Size(), the level snapshot, data_ and the FIFO order of all other resting
\* orders to their values before the add.
C13_AddThenCancelRestores ==
  [][(/\ pc = "idle"
      /\ last = Did("AddOrder", "returned")
      /\ before.id \in DOMAIN orders_
      /\ heap[orders_[before.id]].orderType \in {"GoodTillCancel", "GoodForDay"}
      /\ last'.op = "CancelOrder"
      /\ before.id \notin DOMAIN orders_')
       => /\ pc' = "idle"
          /\ Size(Book') = Size(before)
          /\ GetOrderInfos(Book') = GetOrderInfos(before)
          /\ data_' = before.data
          /\ bids_' = before.bids
          /\ asks_' = before.asks]_vars

\* C14: ModifyOrder on a resting id, run without interference, replaces the
\* order by one with the supplied side, price and quantity and the original
\* order's type, placed at the tail of its new price bucket (behind every
\* order that was resting there, also when nothing of it changed).
C14_ModifyGoesToTail ==
  [][(pc = "idle" /\ last'.op = "ModifyOrder" /\ last'.res # "absent")
       => /\ pc' = "match"
          /\ given'.orderId_ \in DOMAIN orders_
          /\ orders_'[given'.orderId_] = cur'
          /\ heap'[cur'] = Order(heap[orders_[given'.orderId_]].orderType,
                                 given'.orderId_, given'.side_, given'.price_,
                                 given'.quantity_)
          /\ LET old == orders_[given'.orderId_]
                 own == IF given'.side_ = "Buy" THEN bids_' ELSE asks_'
                 was == IF given'.side_ = "Buy" THEN bids_ ELSE asks_
                 ahead == IF given'.price_ \in DOMAIN was
                          THEN SelectSeq(was[given'.price_], LAMBDA h : h # old)
                          ELSE <<>>
             IN /\ given'.price_ \in DOMAIN own
                /\ own[given'.price_] = Append(ahead, cur')
                /\ NodesOf(bids_', cur') + NodesOf(asks_', cur') = 1]_vars

\* the buckets of a ladder without the GoodForDay orders
WithoutGoodForDay(ladder) ==
  LET kept(p) == SelectSeq(ladder[p], LAMBDA h : heap[h].orderType # "GoodForDay")
  IN [p \in {q \in DOMAIN ladder : kept(q) # <<>>} |-> kept(p)]

\* C15: a cycle of the pruner that runs with no client operation interleaved
\* removes every resting GoodForDay order from its ladder, from orders_ and
\* from data_, leaves every other order untouched (same remaining quantity
\* and queue position) and produces no trade.
C15_PruneRemovesGoodForDay ==
  [][(pc = "idle" /\ last'.op = "Prune")
       => /\ pc' = "idle"
          /\ trades' = <<>>
          /\ bids_' = WithoutGoodForDay(bids_)
          /\ asks_' = WithoutGoodForDay(asks_)
          /\ DOMAIN orders_' = DOMAIN orders_ \ GoodForDayIds(Book)
          /\ \A id \in DOMAIN orders_' :
               /\ orders_'[id] = orders_[id]
               /\ heap'[orders_'[id]] = heap[orders_[id]]
          /\ DOMAIN data_' = DOMAIN bids_' \cup DOMAIN asks_'
          /\ \A p \in DOMAIN data_' :
               LET gone == {h \in RestingAt(p) : heap[h].orderType = "GoodForDay"}
               IN /\ data_'[p].count_ = data_[p].count_ - Cardinality(gone)
                  /\ data_'[p].quantity_ = data_[p].quantity_
                       - SumOver([h \in gone |-> heap[h].remainingQuantity], gone)]_vars

\* C16: once the destructor has set shutdown_, the pruner performs no further
\* scan and cancels no order: a wake of its wait, notified or timed out, does
\* not go on to the scan, no scan is made and no batch is cancelled.
C16_NoPruningAfterShutdown ==
  [][shutdown_
       => /\ prunerPc' = "scan" => prunerPc = "scan"
          /\ prunerPc' = "cancel" => prunerPc = "cancel"
          /\ prunerPc = "cancel" => prunerPc' = "cancel"]_vars

\* C17: after the destructor has set shutdown_ and signalled the condition
\* variable, the pruner exits in response to that signal, in every
\* interleaving of the signal with the pruner's flag check and its entry into
\* the timed wait: while the destructor is in join, the pruner is never
\* blocked in wait_for with the signal already spent.
C17_SignalEndsPruner ==
  dtorPc = "joining" => prunerPc # "waiting"

\* C18: Size and GetOrderInfos hold ordersMutex_ for their whole duration: a
\* value is returned by either only from a state in which no other thread is
\* inside a locked section, and the call returns.
C18_ReadersHoldMutex ==
  [][seen'.op # "none" => (MutexFree /\ seen'.res = "returned")]_vars

\* C19: no thread tries to acquire ordersMutex_ while it holds it: when the
\* crossing loop of an AddOrder has ended, MatchOrders has no FillAndKill
\* residual to hand to the locking CancelOrder, and AddOrder is never blocked
\* on the mutex it holds.
C19_NoLockWhileHeld ==
  /\ pc # "hung"
  /\ (pc = "match" /\ ~Crossing(Book))
       => /\ ResidualOf(Book, bids_, Max(DOMAIN bids_)) = {}
          /\ ResidualOf(Book, asks_, Min(DOMAIN asks_)) = {}

\* the sum of the remaining quantities of the resting orders
TotalRemaining ==
  SumOver([h \in Resting |-> heap[h].remainingQuantity], Resting)

\* C20: the crossing loop terminates: each pairing of the two head orders
\* strictly reduces the total remaining quantity and removes at least one of
\* the two from its bucket, and the AddOrder that runs the loop returns.
C20_CrossingLoopTerminates ==
  [][/\ Len(trades') = Len(trades) + 1
          => /\ TotalRemaining' < TotalRemaining
             /\ \/ TopBid(Book) \notin HandlesIn(bids_')
                \/ TopAsk(Book) \notin HandlesIn(asks_')
     /\ Ended => last'.res = "returned"]_vars

\* data_ describes the ladders: an entry exactly for the prices with resting
\* orders, holding their number and the sum of their remaining quantities
LevelDataConsistent ==
  /\ DOMAIN data_ = DOMAIN bids_ \cup DOMAIN asks_
  /\ \A p \in DOMAIN data_ :
       /\ data_[p].count_ = Cardinality(RestingAt(p))
       /\ data_[p].quantity_ =
            SumOver([h \in RestingAt(p) |-> heap[h].remainingQuantity],
                    RestingAt(p))

\* the resting orders of the side opposite to `side` priced within `price`
WithinLimit(side, price) ==
  IF side = "Buy"
  THEN {h \in HandlesIn(asks_) : heap[h].price <= price}
  ELSE {h \in HandlesIn(bids_) : heap[h].price >= price}

\* the resting orders of `side` itself at the prices the limit admits
OwnWithinLimit(side, price) ==
  IF side = "Buy"
  THEN {h \in HandlesIn(bids_) : heap[h].price <= price}
  ELSE {h \in HandlesIn(asks_) : heap[h].price >= price}

RemainingOf(S) == SumOver([h \in S |-> heap[h].remainingQuantity], S)

\* the quantities CanFullyFill is asked about: up to all that can rest
FillQuantities == 1..(MaxId * MaxQty)

\* C21: on every book a call can find, when data_ describes the ladders,
\* CanFullyFill(side, price, quantity) is true exactly when the remaining
\* quantities of the resting orders of the opposite side priced within the
\* limit sum to at least quantity; the orders of the own side do not count.
C21_CanFullyFillExact ==
  (pc = "idle" /\ LevelDataConsistent)
    => \A side \in Sides, price \in Prices, quantity \in FillQuantities :
         CanFullyFill(Book, side, price, quantity)
           = (RemainingOf(WithinLimit(side, price)) >= quantity)

\* a FillOrKill order has been rejected on a book whose own side, counted in,
\* would fill an order that the opposite side alone cannot
C21_Witness ==
  /\ pc = "idle"
  /\ LevelDataConsistent
  /\ last = Did("AddOrder", "cannotFullyFill")
  /\ \E price \in Prices, quantity \in FillQuantities :
       /\ ~CanFullyFill(Book, "Buy", price, quantity)
       /\ CanMatch(Book, "Buy", price)
       /\ RemainingOf(WithinLimit("Buy", price))
            + RemainingOf(OwnWithinLimit("Buy", price)) >= quantity

\* a ladder with handle h taken out of its bucket, and the key of a bucket
\* that h leaves empty taken out with it
LadderWithout(ladder, h) ==
  LET kept(p) == SelectSeq(ladder[p], LAMBDA x : x # h)
  IN [p \in {q \in DOMAIN ladder : kept(q) # <<>>} |-> kept(p)]

\* C22: CancelOrder of a resting id removes exactly that order: it leaves its
\* bucket and orders_, its price key is erased only if the bucket became
\* empty, data_ at its price loses one count and the order's remaining
\* quantity, and every other resting order keeps its remaining quantity, its
\* bucket and its relative FIFO position and stays cancellable by id.
C22_CancelRemovesExactlyOne ==
  [][(pc = "idle" /\ last'.op = "CancelOrder" /\ last'.res # "absent")
       => \E id \in DOMAIN orders_ :
            LET h == orders_[id]
                o == heap[h]
            IN /\ pc' = "idle"
               /\ DOMAIN orders_' = DOMAIN orders_ \ {id}
               /\ bids_' = LadderWithout(bids_, h)
               /\ asks_' = LadderWithout(asks_, h)
               /\ (IF o.side = "Buy" THEN asks_' = asks_ ELSE bids_' = bids_)
               /\ \A p \in DOMAIN data_ \ {o.price} :
                    p \in DOMAIN data_' /\ data_'[p] = data_[p]
               /\ DOMAIN data_' \subseteq DOMAIN data_
               /\ IF data_[o.price].count_ = 1
                  THEN o.price \notin DOMAIN data_'
                  ELSE /\ o.price \in DOMAIN data_'
                       /\ data_'[o.price].count_ = data_[o.price].count_ - 1
                       /\ data_'[o.price].quantity_
                            = data_[o.price].quantity_ - o.remainingQuantity
               /\ \A other \in DOMAIN orders_' :
                    /\ orders_'[other] = orders_[other]
                    /\ orders_'[other] \in DOMAIN heap'
                    /\ heap'[orders_'[other]] = heap[orders_[other]]
                    /\ NodesOf(bids_', orders_'[other])
                         + NodesOf(asks_', orders_'[other]) = 1]_vars

\* C23: ModifyOrder(id) releases the mutex between reading the order's type
\* and its cancel and re-add steps.  When another thread cancels id in that
\* gap, either order of the two operations run one after the other would leave
\* id absent (the modification not crossing); the CancelOrder of ModifyOrder
\* then finds nothing and changes nothing, and its AddOrder inserts a new
\* order with that id, the supplied side, price and quantity and the type
\* that was read.
C23_ModifyRaceReinserts ==
  [][modifier.pc \in {"read", "cancelled"}
       => LET order == modifier.order
              id == modifier.order.orderId_
          IN /\ (/\ modifier'.pc = "read"
                 /\ id \in DOMAIN orders_
                 /\ id \notin DOMAIN orders_'
                 /\ pc' = "idle")
                  => /\ pc = "idle"
                     /\ id \notin DOMAIN ModifyOrderOn(Book', order).orders
                     /\ ~Crossing(ModifyOrderOn(Book, order))
                          => id \notin DOMAIN
                               CancelOrderInternal(ModifyOrderOn(Book, order),
                                                   id).orders
             /\ (/\ modifier.pc = "read"
                 /\ modifier'.pc = "cancelled"
                 /\ id \notin DOMAIN orders_)
                  => /\ UNCHANGED BookVars
                     /\ ~modifier'.found
             /\ (/\ modifier.pc = "cancelled"
                 /\ modifier'.pc = "added"
                 /\ ~modifier.found
                 /\ id \notin DOMAIN orders_)
                  => /\ pc' = "match"
                     /\ id \in DOMAIN orders_'
                     /\ orders_'[id] = cur'
                     /\ heap'[cur'] = ToOrderPointer(order, modifier.orderType)
                     /\ DOMAIN orders_' = DOMAIN orders_ \cup {id}]_vars

\* ModifyOrder has returned after a CancelOrder of another thread took its id
\* in the gap, and the id rests
C23_Witness ==
  /\ pc = "idle"
  /\ last = Did("ModifyOrder", "returned")
  /\ modifier.pc = "added"
  /\ ~modifier.found
  /\ modifier.order.orderId_ \in DOMAIN orders_
  /\ heap[orders_[modifier.order.orderId_]]
       = ToOrderPointer(modifier.order, modifier.orderType)

\* C24: the pruner cancels only orders that are of type GoodForDay at the
\* moment they are cancelled, in every interleaving with client threads: every
\* order the batch cancel takes out of orders_ is a GoodForDay order in the
\* book the batch cancel finds, also when its id was collected by the scan,
\* left the book and was added again with another type in between.
C24_PrunerCancelsOnlyGoodForDay ==
  [][(prunerPc = "cancel" /\ prunerPc' = "start")
       => \A id \in DOMAIN orders_ \ DOMAIN orders_' :
            heap[orders_[id]].orderType = "GoodForDay"]_vars

\* C25: the pruner thread exits only after shutdown has been requested: it
\* has returned from PruneGoodForDayOrders only when shutdown_ is set, so a
\* return of the timed wait that is not a timeout, with the flag false, does
\* not end it.
C25_PrunerExitsOnlyOnShutdown ==
  prunerPc = "exited" => shutdown_

====
